---- MODULE Spec2Model ----
(***************************************************************************)
(* Model of Main.py, a Streamlit page that downloads a YouTube video as    *)
(* MP3 or MP4 through yt_dlp.                                              *)
(*                                                                         *)
(* Strings the program inspects character by character (URLs, titles,      *)
(* format notes, quality labels) are sequences of one-character strings,   *)
(* so that `in`, re.sub, strip, slicing, f"{height}p" and int() are        *)
(* computed rather than assumed.                                           *)
(***************************************************************************)
EXTENDS Integers, Sequences, FiniteSets, TLC

Min(a, b) == IF a <= b THEN a ELSE b

Range(s) == {s[i] : i \in 1..Len(s)}

\* All sequences over S of length at most n.
SeqsUpTo(S, n) == UNION {[1..k -> S] : k \in 0..n}

\* Python's `pat in s` for strings.
Contains(pat, s) ==
  \E i \in 0..(Len(s) - Len(pat)) : SubSeq(s, i + 1, i + Len(pat)) = pat

(***************************************************************************)
(* sanitize_filename                                                       *)
(***************************************************************************)
\* The character class of the first re.sub: [<>:"/\\|?*]
InvalidChars == {"<", ">", ":", "\"", "/", "\\", "|", "?", "*"}

\* The characters \s matches, as far as the titles of the model use them.
Whitespace == {" ", "\t", "\n"}

\* The [:100] of sanitize_filename.
NameLimit == 100

RemoveInvalid(s) == SelectSeq(s, LAMBDA c : c \notin InvalidChars)

RECURSIVE DropLeadingWs(_)
DropLeadingWs(s) ==
  IF s # <<>> /\ Head(s) \in Whitespace THEN DropLeadingWs(Tail(s)) ELSE s

\* re.sub(r'\s+', ' ', s): every maximal run of whitespace becomes one space,
\* that is, its first character becomes a space and the others go.
CollapseWs(s) ==
  LET first(i) == s[i] \in Whitespace /\ (i = 1 \/ s[i - 1] \notin Whitespace)
      kept == SelectSeq([i \in 1..Len(s) |-> i],
                        LAMBDA i : s[i] \notin Whitespace \/ first(i))
  IN [n \in 1..Len(kept) |-> IF s[kept[n]] \in Whitespace THEN " " ELSE s[kept[n]]]

RECURSIVE DropTrailingWs(_)
DropTrailingWs(s) ==
  IF s # <<>> /\ s[Len(s)] \in Whitespace
  THEN DropTrailingWs(SubSeq(s, 1, Len(s) - 1))
  ELSE s

\* str.strip()
Strip(s) == DropTrailingWs(DropLeadingWs(s))

\* s[:n]
Take(s, n) == SubSeq(s, 1, Min(n, Len(s)))

\* sanitize_filename without the [:100].
sanitize_unbounded(filename) == Strip(CollapseWs(RemoveInvalid(filename)))

sanitize_filename(filename) ==
  Take(Strip(CollapseWs(RemoveInvalid(filename))), NameLimit)

(***************************************************************************)
(* Values of the library's loosely typed dictionaries: a key may be        *)
(* missing, or hold None, a string or an integer.                          *)
(***************************************************************************)
AbsentVal == [k |-> "absent"]
NoneVal == [k |-> "none"]
Str(s) == [k |-> "str", v |-> s]
Num(n) == [k |-> "int", v |-> n]

\* dict.get(key): None when the key is missing.
Get(x) == IF x.k = "absent" THEN NoneVal ELSE x

\* dict.get(key, default)
GetDefault(x, d) == IF x.k = "absent" THEN d ELSE x

\* Python truthiness of None, a string or an integer.
Truthy(x) ==
  CASE x.k = "none" -> FALSE
    [] x.k = "str" -> x.v # <<>>
    [] x.k = "int" -> x.v # 0

(***************************************************************************)
(* Quality labels: f"{height}p" and int(x.replace('p', ''))                *)
(***************************************************************************)
DigitChars == <<"0", "1", "2", "3", "4", "5", "6", "7", "8", "9">>

\* str() of a non-negative integer.
RECURSIVE IntToStr(_)
IntToStr(n) ==
  IF n < 10 THEN <<DigitChars[n + 1]>>
  ELSE IntToStr(n \div 10) \o <<DigitChars[(n % 10) + 1]>>

DigitVal(c) == CHOOSE d \in 0..9 : DigitChars[d + 1] = c

\* int() of a string of digits.
RECURSIVE StrToInt(_)
StrToInt(s) ==
  IF Len(s) = 1 THEN DigitVal(s[1])
  ELSE 10 * StrToInt(SubSeq(s, 1, Len(s) - 1)) + DigitVal(s[Len(s)])

\* f"{height}p"
QualityLabel(height) == IntToStr(height) \o <<"p">>

\* x.replace('p', '')
StripP(x) == SelectSeq(x, LAMBDA c : c # "p")

\* The sort key of both sorted() calls, and the height download_video_to_memory
\* puts into the format selector.
LabelHeight(x) == StrToInt(StripP(x))

\* sorted(list(S), key=LabelHeight, reverse=True) for labels of distinct heights.
RECURSIVE SortDescending(_)
SortDescending(S) ==
  IF S = {} THEN <<>>
  ELSE LET top == CHOOSE x \in S : \A y \in S : LabelHeight(y) <= LabelHeight(x)
       IN <<top>> \o SortDescending(S \ {top})

(***************************************************************************)
(* get_video_info: the quality derivation                                  *)
(***************************************************************************)
CodecNone == <<"n", "o", "n", "e">>

\* HasVideoHeight without the test of the codec.
HasHeight(f) == Truthy(Get(f.height)) /\ Get(f.height).v > 0

\* Lines 43-45: the descriptor has a video codec and a positive height.
HasVideoHeight(f) ==
  /\ Truthy(Get(f.vcodec))
  /\ Get(f.vcodec).v # CodecNone
  /\ Truthy(Get(f.height))
  /\ Get(f.height).v > 0

\* Lines 39-52: the first tier.
HeightQualities(formats) ==
  SortDescending({QualityLabel(Get(formats[i].height).v) :
                    i \in {j \in 1..Len(formats) : HasVideoHeight(formats[j])}})

UpperChars == <<"A", "B", "C", "D", "E", "F", "G", "H", "I", "J", "K", "L", "M",
                "N", "O", "P", "Q", "R", "S", "T", "U", "V", "W", "X", "Y", "Z">>
LowerChars == <<"a", "b", "c", "d", "e", "f", "g", "h", "i", "j", "k", "l", "m",
                "n", "o", "p", "q", "r", "s", "t", "u", "v", "w", "x", "y", "z">>

\* str.lower()
Lower(s) ==
  [i \in 1..Len(s) |->
     IF \E j \in 1..26 : UpperChars[j] = s[i]
     THEN LowerChars[CHOOSE j \in 1..26 : UpperChars[j] = s[i]]
     ELSE s[i]]

KwTiny == <<"t", "i", "n", "y">>
KwSmall == <<"s", "m", "a", "l", "l">>
KwMedium == <<"m", "e", "d", "i", "u", "m">>
KwLarge == <<"l", "a", "r", "g", "e">>
KwHd720 == <<"h", "d", "7", "2", "0">>
KwHd1080 == <<"h", "d", "1", "0", "8", "0">>

\* Lines 58-69: the if/elif chain; <<>> when no branch is taken, else the one
\* label appended.
NoteLabel(format_note) ==
  IF Contains(KwTiny, format_note) THEN <<<<"1", "4", "4", "p">>>>
  ELSE IF Contains(KwSmall, format_note) THEN <<<<"2", "4", "0", "p">>>>
  ELSE IF Contains(KwMedium, format_note) THEN <<<<"3", "6", "0", "p">>>>
  ELSE IF Contains(KwLarge, format_note) THEN <<<<"4", "8", "0", "p">>>>
  ELSE IF Contains(KwHd720, format_note) THEN <<<<"7", "2", "0", "p">>>>
  ELSE IF Contains(KwHd1080, format_note) THEN <<<<"1", "0", "8", "0", "p">>>>
  ELSE <<>>

\* Line 57: f.get('format_note', '') is None when the key holds None, and
\* None.lower() raises AttributeError.
NoteRaises(f) == GetDefault(f.format_note, Str(<<>>)).k # "str"

\* Lines 56-73: the second tier, for a list on which no note raises.
NoteQualities(formats) ==
  SortDescending(UNION {Range(NoteLabel(Lower(GetDefault(formats[i].format_note,
                                                         Str(<<>>)).v))) :
                          i \in 1..Len(formats)})

\* Lines 38-73 raise (and lines 84-86 then report and return None) exactly
\* when the second tier runs and meets a note it cannot lower.
QualitiesRaise(formats) ==
  /\ HeightQualities(formats) = <<>>
  /\ \E i \in 1..Len(formats) : NoteRaises(formats[i])

\* Lines 38-73: the video_qualities of the returned record.
VideoQualities(formats) ==
  IF HeightQualities(formats) # <<>> THEN HeightQualities(formats)
  ELSE NoteQualities(formats)

(***************************************************************************)
(* format_file_size                                                        *)
(*                                                                         *)
(* A byte count is written in base 1024, most significant digit first and  *)
(* without a leading zero (<<>> is 0, <<1, 0>> is 1024), so that counts of *)
(* a terabyte and more are within reach of 32-bit arithmetic.              *)
(***************************************************************************)
\* The base of math.log(size_bytes, 1024) and math.pow(1024, i).
SizeBase == 1024

size_names == <<"B", "KB", "MB", "GB">>

\* int(math.floor(math.log(size_bytes, 1024))) for size_bytes >= 1: one less
\* than the number of base-1024 digits. (The floating-point quotient agrees
\* with the exact value for every count below 1024^5 - 3.)
FloorLog(size_bytes) == Len(size_bytes) - 1

\* The outcome of the call: the text "0B", a text ending in a unit, or the
\* IndexError of size_names[i]. The rounded mantissa s is not modelled.
format_file_size(size_bytes) ==
  IF size_bytes = <<>> THEN [kind |-> "text", unit |-> "0B", i |-> 0]
  ELSE LET i == FloorLog(size_bytes)
       IN IF i + 1 \in DOMAIN size_names
          THEN [kind |-> "text", unit |-> size_names[i + 1], i |-> i]
          ELSE [kind |-> "IndexError", unit |-> "", i |-> i]

(***************************************************************************)
(* download_video_to_memory: the format selector, and the library's        *)
(* evaluation of it                                                        *)
(***************************************************************************)
BestLabel == <<"b", "e", "s", "t">>

\* Lines 135-139. The selector string 'A/B/C' is held as the sequence of its
\* alternatives, each `best` with its filters: [height<=h] and [ext=mp4].
FormatSelector(quality) ==
  IF quality = BestLabel
  THEN << [height |-> NoneVal, ext |-> "mp4"],
          [height |-> NoneVal, ext |-> "any"] >>
  ELSE LET height == StrToInt(StripP(quality))
       IN << [height |-> Num(height), ext |-> "mp4"],
             [height |-> Num(height), ext |-> "any"],
             [height |-> NoneVal, ext |-> "any"] >>

\* yt_dlp: a filter on a field excludes the formats that lack the field.
PassesFilters(alt, f) ==
  /\ alt.height.k = "int" => (f.height.k = "int" /\ f.height.v <= alt.height.v)
  /\ alt.ext # "any" => f.ext = alt.ext

\* yt_dlp: every format is video-only, or every format is audio-only.
IncompleteFormats(streams) ==
  \/ \A f \in streams : f.video /\ ~f.audio
  \/ \A f \in streams : f.audio /\ ~f.video

\* yt_dlp: `best` takes the formats that carry both video and audio; when
\* none passes and the formats are incomplete it takes any format.
BestCandidates(alt, streams) ==
  LET passing == {f \in streams : PassesFilters(alt, f)}
      merged == {f \in passing : f.video /\ f.audio}
  IN IF merged # {} THEN merged
     ELSE IF IncompleteFormats(streams) THEN passing
     ELSE {}

HeightOf(f) == IF f.height.k = "int" THEN f.height.v ELSE 0

\* The formats `best` may pick among the candidates: one of greatest height.
Best(candidates) ==
  {f \in candidates : \A g \in candidates : HeightOf(g) <= HeightOf(f)}

\* yt_dlp: the alternatives of 'A/B/C' are tried from the left, and the first
\* that selects something decides. {} is "Requested format is not available".
RECURSIVE SelectFormat(_, _)
SelectFormat(selector, streams) ==
  IF selector = <<>> THEN {}
  ELSE IF BestCandidates(Head(selector), streams) # {}
       THEN Best(BestCandidates(Head(selector), streams))
       ELSE SelectFormat(Tail(selector), streams)

(***************************************************************************)
(* The inputs of the model: what the user types and what the library      *)
(* answers.                                                                *)
(***************************************************************************)
PatWatch == <<"y", "o", "u", "t", "u", "b", "e", ".", "c", "o", "m", "/", "w", "a", "t", "c", "h">>
PatShort == <<"y", "o", "u", "t", "u", ".", "b", "e", "/">>
PatShorts == <<"y", "o", "u", "t", "u", "b", "e", ".", "c", "o", "m", "/", "s", "h", "o", "r", "t", "s">>

\* ValidUrl with the host alone deciding.
ValidUrlByHost(u) == Contains(<<"y", "o", "u", "t", "u", "b", "e", ".", "c", "o", "m">>, u) \/ Contains(<<"y", "o", "u", "t", "u", ".", "b", "e">>, u)

\* Line 218: the URL is accepted.
ValidUrl(u) ==
  Contains(PatWatch, u) \/ Contains(PatShort, u) \/ Contains(PatShorts, u)

UrlEmpty == <<>>
UrlWatch == <<"y", "o", "u", "t", "u", "b", "e", ".", "c", "o", "m", "/", "w", "a", "t", "c", "h", "?", "v", "=", "a">>
UrlShort == <<"y", "o", "u", "t", "u", ".", "b", "e", "/", "a">>
UrlShorts == <<"y", "o", "u", "t", "u", "b", "e", ".", "c", "o", "m", "/", "s", "h", "o", "r", "t", "s", "/", "a">>
UrlEmbedded == <<"x", ".", "i", "o", "/", "?", "u", "=", "y", "o", "u", "t", "u", ".", "b", "e", "/">>
UrlNearWatch == <<"y", "o", "u", "t", "u", "b", "e", ".", "c", "o", "m", "/", "w", "a", "t", "c">>
UrlNoSlash == <<"y", "o", "u", "t", "u", ".", "b", "e">>
UrlOther == <<"v", "i", "m", "e", "o", ".", "c", "o", "m", "/", "1">>

\* What the user may type into the text field.
Urls == {UrlEmpty, UrlWatch, UrlShort, UrlShorts, UrlEmbedded,
         UrlNearWatch, UrlNoSlash, UrlOther}

\* --- format descriptors, as get_video_info reads them ---------------------
CodecAvc == <<"a", "v", "c", "1">>

Descriptor(vcodec, height, format_note) ==
  [vcodec |-> vcodec, height |-> height, format_note |-> format_note]

VideoAt(h) == Descriptor(Str(CodecAvc), Num(h), AbsentVal)
AudioOnly == Descriptor(Str(CodecNone), NoneVal, Str(<<"m", "e", "d", "i", "u", "m">>))
Noted(note) == Descriptor(AbsentVal, AbsentVal, Str(note))

\* Heights [144, 720, 720, 1080] mixed with audio-only entries.
FormatsByHeight ==
  <<AudioOnly, VideoAt(144), VideoAt(720), AudioOnly, VideoAt(720), VideoAt(1080)>>

\* No height fields, format notes ['hd720', 'tiny'].
FormatsByNote == <<Noted(KwHd720), Noted(KwTiny)>>

\* No height fields, and one descriptor whose format_note holds None.
FormatsNullNote ==
  <<Noted(KwHd720), Descriptor(Str(CodecAvc), NoneVal, NoneVal)>>

PresetFormats == {<<>>, FormatsByHeight, FormatsByNote, FormatsNullNote}

\* The longest format list enumerated exhaustively.
MaxFormats == 2

Descriptors ==
  {Descriptor(c, h, n) :
     c \in {AbsentVal, Str(CodecNone), Str(CodecAvc)},
     h \in {NoneVal, Num(0), Num(144), Num(720)},
     n \in {AbsentVal, NoneVal, Str(KwTiny), Str(<<"H", "D", "7", "2", "0">>), Str(<<"a", "u", "d", "i", "o">>)}}

FormatLists == SeqsUpTo(Descriptors, MaxFormats) \cup PresetFormats

\* --- streams, as the library's format selection reads them ----------------
Stream(height, ext, video, audio) ==
  [height |-> height, ext |-> ext, video |-> video, audio |-> audio]

Streams ==
  {Stream(h, e, TRUE, a) :
     h \in {NoneVal, Num(144), Num(720), Num(1080)},
     e \in {"mp4", "webm"}, a \in BOOLEAN}
  \cup {Stream(NoneVal, e, FALSE, TRUE) : e \in {"m4a", "webm"}}

\* The largest set of streams enumerated.
MaxStreams == 2

StreamSets == {S \in SUBSET Streams : Cardinality(S) <= MaxStreams}

\* What the library offers for the videos of the page.
PresetStreams ==
  { {Stream(Num(720), "mp4", TRUE, TRUE), Stream(Num(1080), "webm", TRUE, FALSE),
     Stream(NoneVal, "m4a", FALSE, TRUE)},
    {Stream(Num(1080), "mp4", TRUE, FALSE), Stream(NoneVal, "m4a", FALSE, TRUE)} }

Label144 == <<"1", "4", "4", "p">>
Label480 == <<"4", "8", "0", "p">>
Label720 == <<"7", "2", "0", "p">>
SelectableQualities == {BestLabel, Label144, Label480, Label720}

\* --- titles ----------------------------------------------------------------
TitleChars == {"a", " ", "/", "?"}

\* The longest title enumerated exhaustively.
MaxTitleLen == 2

\* n times the letter b.
Pad(n) == [i \in 1..n |-> "b"]

ShortTitles == SeqsUpTo(TitleChars, MaxTitleLen)

\* Every short title, alone and around NameLimit - 1 letters, and a title
\* with other whitespace and other invalid characters.
Titles ==
  ShortTitles
  \cup {t \o Pad(NameLimit - 1) \o t : t \in ShortTitles}
  \cup {<<"\t", "<", "a", ">", "\n", " ", "|", "b", "*", "\\", ":", "\"">>}

\* --- byte counts -------------------------------------------------------------
\* The most base-1024 digits of a byte count.
MaxDigits == 5

ByteCounts ==
  {b \in SeqsUpTo({0, 1, SizeBase - 1}, MaxDigits) : b = <<>> \/ b[1] # 0}

\* The lengths of the files the page reads: 0, 1, 1024 - 1 and 1024 bytes.
FileSizes == {<<>>, <<1>>, <<SizeBase - 1>>, <<1, 0>>}

\* --- what one download call of the library leaves behind ---------------------
File(stem, ext) == [stem |-> stem, ext |-> ext]

\* raises: extract_info raised. files: what it wrote under the output template.
\* title: info['title']. size: the length of the file read. readable: open()
\* and read() succeed.
Outcome(raises, files, title, size, readable) ==
  [raises |-> raises, files |-> files, title |-> title, size |-> size,
   readable |-> readable]

SomeTitle == Str(<<"a">>)

LibraryOutcomes(stem, ext) ==
  \* the library raises, before or after it wrote a partial file
  {Outcome(TRUE, F, AbsentVal, <<>>, TRUE) : F \in {{}, {File(stem, "part")}}}
  \* it completes and the file is not where it is looked for
  \cup {Outcome(FALSE, {}, SomeTitle, <<>>, TRUE)}
  \* the file is there and cannot be read
  \cup {Outcome(FALSE, {File(stem, ext)}, SomeTitle, <<1>>, FALSE)}
  \* the file is read and the info has no title, or None
  \cup {Outcome(FALSE, {File(stem, ext)}, t, <<1>>, TRUE) : t \in {AbsentVal, NoneVal}}
  \* the file is read and named
  \cup {Outcome(FALSE, F, Str(t), z, TRUE) :
          F \in {{File(stem, ext)}, {File(stem, ext), File(stem, "webm")}},
          t \in Titles, z \in FileSizes}

\* FFmpegExtractAudio did not run: the download is there, audio.mp3 is not.
AudioOutcomes ==
  LibraryOutcomes("audio", "mp3")
  \cup {Outcome(FALSE, {File("audio", "webm")}, SomeTitle, <<1>>, TRUE)}

VideoOutcomes == LibraryOutcomes("video", "mp4")

(***************************************************************************)
(* The state of the page                                                   *)
(***************************************************************************)
VARIABLES
  url,              \* the text field
  enter_clicked,    \* "Enter" was clicked and this run answers it
  mp3_btn,          \* "Download MP3" was clicked and this run answers it
  mp4_btn,          \* "Download MP4" was clicked and this run answers it
  selected_quality, \* the value of the select box
  options,          \* the options the select box was last rendered with
  pc,               \* where main() stands; "idle" between two runs
  video_info,       \* main's local: what get_video_info returned
  result,           \* main's locals file_data, filename
  page,             \* what this run has put on the page
  calls,            \* the calls this run made into the download functions
  fs,               \* the transient directories that exist, with their files
  dl,               \* the download call in progress, or the last one
  arg,              \* a function applied on its own: its argument
  out               \* and its result

vars == <<url, enter_clicked, mp3_btn, mp4_btn, selected_quality, options, pc, video_info,
          result, page, calls, fs, dl, arg, out>>

widgets == <<url, enter_clicked, mp3_btn, mp4_btn>>
harness == <<arg, out>>

\* The most transient directories that exist at once.
MaxDirs == 2

EmptyPage ==
  [errors |-> <<>>, controls |-> FALSE, save |-> NoneVal, failed |-> FALSE,
   file_size |-> NoneVal]

NoCall == [k |-> "none"]

\* The page is opened: main() runs with an empty text field.
PageInit ==
  /\ url = <<>>
  /\ enter_clicked = FALSE
  /\ mp3_btn = FALSE
  /\ mp4_btn = FALSE
  /\ selected_quality = BestLabel
  /\ options = <<>>
  /\ pc = "validate"
  /\ video_info = NoneVal
  /\ result = NoCall
  /\ page = EmptyPage
  /\ calls = <<>>
  /\ fs = {}
  /\ dl = NoCall

Init == PageInit /\ arg = NoCall /\ out = NoCall

\* st.error(...)
ShowError(p, msg) == [p EXCEPT !.errors = Append(@, msg)]

(***************************************************************************)
(* What the user does. Every interaction runs main() again from the top.   *)
(***************************************************************************)
Rerun ==
  /\ pc' = "validate"
  /\ video_info' = NoneVal
  /\ result' = NoCall
  /\ page' = EmptyPage
  /\ calls' = <<>>
  /\ dl' = NoCall
  /\ UNCHANGED <<fs, options, harness>>

\* Lines 214-215: the user types a URL (or clears the field) and submits.
EnterUrl(u) ==
  /\ pc = "idle"
  /\ url' = u
  /\ enter_clicked' = TRUE
  /\ mp3_btn' = FALSE
  /\ mp4_btn' = FALSE
  /\ UNCHANGED selected_quality
  /\ Rerun

\* Lines 292-296: the user picks one of the rendered qualities.
SelectQuality(q) ==
  /\ pc = "idle"
  /\ page.controls
  /\ q \in Range(options)
  /\ selected_quality' = q
  /\ enter_clicked' = FALSE
  /\ mp3_btn' = FALSE
  /\ mp4_btn' = FALSE
  /\ UNCHANGED url
  /\ Rerun

\* Line 252: the button exists only on a page that rendered the video.
ClickMp3 ==
  /\ pc = "idle"
  /\ page.controls
  /\ enter_clicked' = FALSE
  /\ mp3_btn' = TRUE
  /\ mp4_btn' = FALSE
  /\ UNCHANGED <<url, selected_quality>>
  /\ Rerun

\* Line 298
ClickMp4 ==
  /\ pc = "idle"
  /\ page.controls
  /\ enter_clicked' = FALSE
  /\ mp3_btn' = FALSE
  /\ mp4_btn' = TRUE
  /\ UNCHANGED <<url, selected_quality>>
  /\ Rerun

(***************************************************************************)
(* main()                                                                  *)
(***************************************************************************)
\* A run that renders no select box drops the widget's state.
DropSelectBox == selected_quality' = BestLabel /\ options' = <<>>

\* Lines 216-220: an empty field skips the whole block; a URL without any of
\* the three substrings is reported and main returns.
Validate ==
  /\ pc = "validate"
  /\ IF url = <<>>
     THEN pc' = "idle" /\ DropSelectBox /\ UNCHANGED page
     ELSE IF ~ValidUrl(url)
          THEN /\ pc' = "idle"
               /\ DropSelectBox
               /\ page' = ShowError(page, "invalid_url")
          ELSE /\ pc' = "info"
               /\ UNCHANGED <<page, selected_quality, options>>
  /\ UNCHANGED <<widgets, video_info, result, calls, fs, dl, harness>>

\* Lines 26-86: None when extract_info raises or the derivation raises, else
\* the record (of which the model keeps video_qualities).
get_video_info(raises, formats) ==
  IF raises \/ QualitiesRaise(formats) THEN NoneVal
  ELSE [k |-> "info", video_qualities |-> VideoQualities(formats)]

\* Lines 223-224
GetVideoInfo ==
  /\ pc = "info"
  /\ \E raises \in BOOLEAN, formats \in PresetFormats :
       LET info == get_video_info(raises, formats)
       IN /\ video_info' = info
          /\ calls' = Append(calls, [fn |-> "get_video_info", url |-> url,
                                     ok |-> info # NoneVal])
          /\ page' = IF info = NoneVal THEN ShowError(page, "extract_error")
                     ELSE page
  /\ pc' = "render"
  /\ UNCHANGED <<widgets, selected_quality, options, result, fs, dl, harness>>

\* Render without the `if video_info:` of line 226.
RenderUnguarded ==
  /\ pc = "render"
  /\ LET qualities == <<BestLabel>> \o (IF video_info = NoneVal THEN <<>>
                                         ELSE video_info.video_qualities)
     IN /\ options' = qualities
        /\ selected_quality' =
             IF qualities = options THEN selected_quality ELSE BestLabel
        /\ page' = [page EXCEPT !.controls = TRUE]
        /\ pc' = IF mp3_btn THEN "mp3" ELSE IF mp4_btn THEN "mp4" ELSE "idle"
  /\ UNCHANGED <<widgets, video_info, result, calls, fs, dl, harness>>

\* Lines 226-251 and 286-296: without a record nothing more is rendered; with
\* one, the information, both buttons and the select box are, and the block
\* of the clicked button runs.
Render ==
  /\ pc = "render"
  /\ IF video_info = NoneVal
     THEN pc' = "idle" /\ DropSelectBox /\ UNCHANGED page
     ELSE LET qualities == <<BestLabel>> \o video_info.video_qualities
          IN /\ options' = qualities
             /\ selected_quality' =
                  IF qualities = options THEN selected_quality ELSE BestLabel
             /\ page' = [page EXCEPT !.controls = TRUE]
             /\ pc' = IF mp3_btn THEN "mp3" ELSE IF mp4_btn THEN "mp4" ELSE "idle"
  /\ UNCHANGED <<widgets, video_info, result, calls, fs, dl, harness>>

(***************************************************************************)
(* download_audio_to_memory, download_video_to_memory                      *)
(***************************************************************************)
\* tempfile.TemporaryDirectory(): a directory that did not exist.
FreshDir == CHOOSE d \in 1..MaxDirs : \A e \in fs : e.id # d

\* A directory made with mkdtemp and never removed.
DirectoryKept(files, dir) == files

\* Leaving the `with` block, by return or by exception: the directory and
\* everything in it is removed.
TemporaryDirectoryExit(files, dir) == {e \in files : e.id # dir}

Enter(fn, next) ==
  /\ \E d \in 1..MaxDirs : \A e \in fs : e.id # d
  /\ fs' = fs \cup {[id |-> FreshDir, files |-> {}]}
  /\ dl' = [k |-> "call", fn |-> fn, dir |-> FreshDir, lib |-> NoCall,
            path |-> "running"]
  /\ calls' = Append(calls, [fn |-> fn, url |-> url, ok |-> TRUE])
  /\ pc' = next
  /\ UNCHANGED <<widgets, selected_quality, options, video_info, result, page,
                 harness>>

\* ydl.extract_info(url, download=True) with outcome o.
Library(o, next) ==
  /\ fs' = {IF e.id = dl.dir THEN [e EXCEPT !.files = o.files] ELSE e : e \in fs}
  /\ dl' = [dl EXCEPT !.lib = o]
  /\ pc' = next
  /\ UNCHANGED <<widgets, selected_quality, options, video_info, result, page,
                 calls, harness>>

Pair(file_data, filename, path, error) ==
  [file_data |-> file_data, filename |-> filename, path |-> path,
   error |-> error]

Bytes(size) == [k |-> "bytes", len |-> size]

\* ReadAndName with the name worked out before the file is read, and returned
\* when reading fails.
ReadAndNameEarly(o, found, ext, error, missing) ==
  IF o.raises THEN Pair(NoneVal, NoneVal, "library_raised", <<error>>)
  ELSE IF ~found THEN Pair(NoneVal, NoneVal, "not_found", <<missing>>)
  ELSE IF o.title.k # "str" THEN Pair(NoneVal, NoneVal, "title_raised", <<error>>)
  ELSE IF ~o.readable
       THEN Pair(NoneVal, Str(sanitize_filename(o.title.v) \o ext), "read_raised",
                 <<error>>)
  ELSE Pair(Bytes(o.size), Str(sanitize_filename(o.title.v) \o ext), "returned",
            <<>>)

\* The return value of either function once the file to read is known:
\* `found` is whether there is one. Lines 112-125 and 158-173.
ReadAndName(o, found, ext, error, missing) ==
  IF o.raises THEN Pair(NoneVal, NoneVal, "library_raised", <<error>>)
  ELSE IF ~found THEN Pair(NoneVal, NoneVal, "not_found", <<missing>>)
  ELSE IF ~o.readable THEN Pair(NoneVal, NoneVal, "read_raised", <<error>>)
  ELSE IF o.title.k # "str" THEN Pair(NoneVal, NoneVal, "title_raised", <<error>>)
  ELSE Pair(Bytes(o.size), Str(sanitize_filename(o.title.v) \o ext), "returned",
            <<>>)

ExtMp3 == <<".", "m", "p", "3">>
ExtMp4 == <<".", "m", "p", "4">>

\* Lines 111-125: os.path.exists(temp_file_path + '.mp3')
AudioReturn(o) ==
  ReadAndName(o, File("audio", "mp3") \in o.files, ExtMp3,
              "download_audio_error", "mp3_not_found")

\* Lines 156-173: any file whose name starts with "video"
VideoReturn(o) ==
  ReadAndName(o, \E f \in o.files : f.stem = "video", ExtMp4,
              "download_video_error", "video_not_found")

Exit(r) ==
  /\ result' = r
  /\ page' = IF r.error = <<>> THEN page ELSE ShowError(page, r.error[1])
  /\ fs' = TemporaryDirectoryExit(fs, dl.dir)
  /\ dl' = [dl EXCEPT !.path = r.path]
  /\ pc' = "present"
  /\ UNCHANGED <<widgets, selected_quality, options, video_info, calls, harness>>

\* Lines 260, 90-93
AudioEnter == pc = "mp3" /\ Enter("download_audio_to_memory", "mp3_library")

\* Lines 95-108
AudioLibrary ==
  /\ pc = "mp3_library"
  /\ \E o \in AudioOutcomes : Library(o, "mp3_exit")

\* Lines 110-125
AudioExit == pc = "mp3_exit" /\ Exit(AudioReturn(dl.lib))

\* Lines 306, 129-132
VideoEnter == pc = "mp4" /\ Enter("download_video_to_memory", "mp4_library")

\* Lines 134-153: the library raises when the selector selects nothing.
VideoLibrary ==
  /\ pc = "mp4_library"
  /\ \E streams \in PresetStreams, o \in VideoOutcomes :
       IF SelectFormat(FormatSelector(selected_quality), streams) = {}
       THEN Library(Outcome(TRUE, {}, AbsentVal, <<>>, TRUE), "mp4_exit")
       ELSE Library(o, "mp4_exit")

\* Lines 155-173
VideoExit == pc = "mp4_exit" /\ Exit(VideoReturn(dl.lib))

(***************************************************************************)
(* main(), after the download call                                         *)
(***************************************************************************)
\* `if file_data and filename`: None, b'' and '' are false.
TruthyData(file_data) == file_data.k = "bytes" /\ file_data.len # <<>>

\* Lines 262-284 and 308-331
Present(mime) ==
  /\ pc = "present"
  /\ IF TruthyData(result.file_data) /\ Truthy(result.filename)
     THEN LET size == format_file_size(result.file_data.len)
          IN IF size.kind = "text"
             THEN page' = [page EXCEPT
                             !.file_size = size,
                             !.save = [data |-> result.file_data,
                                       file_name |-> result.filename,
                                       mime |-> mime]]
             ELSE page' = ShowError(page, "uncaught_IndexError")
     ELSE page' = [page EXCEPT !.failed = TRUE]
  /\ pc' = "idle"
  /\ UNCHANGED <<widgets, selected_quality, options, video_info, result, calls,
                 fs, dl, harness>>

PresentAudio == mp3_btn /\ Present("audio/mpeg")

PresentVideo == mp4_btn /\ Present("video/mp4")

Next ==
  \/ \E u \in Urls : EnterUrl(u)
  \/ \E q \in SelectableQualities \cup Range(options) : SelectQuality(q)
  \/ ClickMp3
  \/ ClickMp4
  \/ Validate
  \/ GetVideoInfo
  \/ Render
  \/ AudioEnter
  \/ AudioLibrary
  \/ AudioExit
  \/ VideoEnter
  \/ VideoLibrary
  \/ VideoExit
  \/ PresentAudio
  \/ PresentVideo

Spec == Init /\ [][Next]_vars

(***************************************************************************)
(* The functions applied on their own, to every argument of a bounded set. *)
(* The page stays as it was opened.                                        *)
(***************************************************************************)
Apply(kind, r) ==
  /\ arg.k = kind
  /\ out = NoCall
  /\ out' = r
  /\ UNCHANGED <<widgets, selected_quality, options, pc, video_info, result,
                 page, calls, fs, dl, arg>>

\* get_video_info on a format list, the library raising or not.
InitInfo ==
  /\ PageInit
  /\ arg \in {[k |-> "formats", raises |-> r, formats |-> F] :
                r \in BOOLEAN, F \in FormatLists}
  /\ out = NoCall

ApplyGetVideoInfo ==
  Apply("formats", [k |-> "returned", v |-> get_video_info(arg.raises, arg.formats)])

SpecInfo == InitInfo /\ [][ApplyGetVideoInfo]_vars

\* The format selection of download_video_to_memory on a set of streams.
InitSelect ==
  /\ PageInit
  /\ arg \in {[k |-> "select", quality |-> q, streams |-> S] :
                q \in SelectableQualities, S \in StreamSets}
  /\ out = NoCall

ApplySelectFormat ==
  Apply("select", [k |-> "selected",
                   v |-> SelectFormat(FormatSelector(arg.quality), arg.streams)])

SpecSelect == InitSelect /\ [][ApplySelectFormat]_vars

\* format_file_size on a byte count.
InitSize ==
  /\ PageInit
  /\ arg \in {[k |-> "size", size_bytes |-> b] : b \in ByteCounts}
  /\ out = NoCall

ApplyFormatFileSize == Apply("size", format_file_size(arg.size_bytes))

SpecSize == InitSize /\ [][ApplyFormatFileSize]_vars

(***************************************************************************)
(* The claims                                                              *)
(***************************************************************************)
\* The URL holds none of the three accepted substrings.
LacksAll(u) ==
  /\ ~Contains(PatWatch, u)
  /\ ~Contains(PatShort, u)
  /\ ~Contains(PatShorts, u)

InDownload == pc \in {"mp3_library", "mp3_exit", "mp4_library", "mp4_exit"}

DownloadFns == {"download_audio_to_memory", "download_video_to_memory"}

Returned == result # NoCall

\* C1, as stated: a run for a submitted URL that holds none of the three
\* substrings ends with the error shown and without any call of
\* get_video_info or of a download function.
C1_AsStated ==
  (enter_clicked /\ LacksAll(url) /\ pc = "idle")
    => (page.errors = <<"invalid_url">> /\ calls = <<>>)

\* C1, amended: for a URL that holds none of the three substrings no call of
\* get_video_info or of a download function is ever made and nothing of the
\* video is rendered; the run ends with the error shown when the URL is not
\* empty, and with no error when it is empty.
C1_Rejected ==
  LacksAll(url) =>
    /\ pc \in {"validate", "idle"}
    /\ calls = <<>>
    /\ video_info = NoneVal
    /\ dl = NoCall
    /\ ~page.controls
    /\ pc = "idle" =>
         page.errors = IF url = <<>> THEN <<>> ELSE <<"invalid_url">>

C1_Witness ==
  /\ enter_clicked
  /\ url = UrlNearWatch
  /\ pc = "idle"
  /\ page.errors = <<"invalid_url">>

\* C2: a download call returns either bytes and a filename, both not None
\* and nothing reported, or (None, None) with exactly one error reported;
\* (None, None) is what it returns when the library raised and when the
\* library completed without the expected file.
C2_WholeOrNothing ==
  Returned =>
    /\ \/ /\ result.file_data.k = "bytes"
          /\ result.filename.k = "str"
          /\ result.error = <<>>
       \/ /\ result.file_data = NoneVal
          /\ result.filename = NoneVal
          /\ Len(result.error) = 1
    /\ page.errors = result.error
    /\ dl.lib.raises => result.file_data = NoneVal /\ result.filename = NoneVal
    /\ dl.path = "not_found" =>
         result.file_data = NoneVal /\ result.filename = NoneVal

C2_Witness ==
  /\ Returned
  /\ dl.fn = "download_video_to_memory"
  /\ dl.path = "read_raised"
  /\ result.file_data = NoneVal
  /\ page.errors = <<"download_video_error">>

\* C3: outside a download call no transient directory exists: the one a call
\* made is gone, with its files, when the call has returned, whatever the
\* path it returned by.
C3_NoResidue ==
  /\ ~InDownload => fs = {}
  /\ InDownload => \A e \in fs : e.id = dl.dir

C3_Witness ==
  /\ Returned
  /\ dl.path = "library_raised"
  /\ dl.lib.files # {}
  /\ fs = {}

\* The descriptors of a format list with a video codec other than 'none'
\* and a positive height.
WithVideoHeight(formats) ==
  {i \in 1..Len(formats) :
     /\ formats[i].vcodec.k = "str"
     /\ formats[i].vcodec.v \notin {<<>>, CodecNone}
     /\ formats[i].height.k = "int"
     /\ formats[i].height.v > 0}

StrictlyDescending(q) ==
  \A i, j \in 1..Len(q) : i < j => LabelHeight(q[i]) > LabelHeight(q[j])

NoDuplicate(q) == \A i, j \in 1..Len(q) : i # j => q[i] # q[j]

\* C4: the video_qualities get_video_info returns hold no label twice and
\* are strictly descending by height; when some descriptor has a video codec
\* and a positive height they are exactly the '<height>p' of those
\* descriptors, and the call returns them whatever the format notes are.
C4_HeightLabels ==
  (out # NoCall /\ ~arg.raises) =>
    LET F == arg.formats
        V == WithVideoHeight(F)
    IN /\ out.v # NoneVal =>
            /\ NoDuplicate(out.v.video_qualities)
            /\ StrictlyDescending(out.v.video_qualities)
       /\ V # {} =>
            /\ out.v # NoneVal
            /\ Range(out.v.video_qualities) = {IntToStr(F[i].height.v) \o <<"p">> : i \in V}
       /\ F = FormatsByHeight =>
            out.v.video_qualities = <<<<"1", "0", "8", "0", "p">>, <<"7", "2", "0", "p">>, <<"1", "4", "4", "p">>>>

C4_Witness ==
  /\ out # NoCall
  /\ ~arg.raises
  /\ arg.formats = FormatsByHeight
  /\ Len(out.v.video_qualities) = 3

\* The table of the second tier.
NoteTable ==
  { <<KwTiny, <<"1", "4", "4", "p">>>>, <<KwSmall, <<"2", "4", "0", "p">>>>, <<KwMedium, <<"3", "6", "0", "p">>>>,
    <<KwLarge, <<"4", "8", "0", "p">>>>, <<KwHd720, <<"7", "2", "0", "p">>>>, <<KwHd1080, <<"1", "0", "8", "0", "p">>>> }

\* The labels the table gives the format notes of a list; a note that is
\* missing, None or without a keyword gives none.
TableLabels(formats) ==
  {e[2] : e \in {e \in NoteTable :
                   \E i \in 1..Len(formats) :
                     /\ formats[i].format_note.k = "str"
                     /\ Contains(e[1], Lower(formats[i].format_note.v))}}

\* C5, as stated: when no descriptor has both a video codec and a positive
\* height, get_video_info returns the labels of the table for the format
\* notes, without duplicate and descending; a descriptor whose note is
\* missing or holds no keyword adds nothing and does not make the call fail.
C5_AsStated ==
  (out # NoCall /\ ~arg.raises /\ WithVideoHeight(arg.formats) = {}) =>
    /\ out.v # NoneVal
    /\ StrictlyDescending(out.v.video_qualities)
    /\ Range(out.v.video_qualities) = TableLabels(arg.formats)

\* C6: a download function is called only after get_video_info returned a
\* record for the same URL in the same run; a run whose get_video_info
\* returned None renders no download control and makes no download call.
C6_InfoFirst ==
  /\ \A i \in 1..Len(calls) :
       calls[i].fn \in DownloadFns =>
         \E j \in 1..(i - 1) :
           /\ calls[j].fn = "get_video_info"
           /\ calls[j].ok
           /\ calls[j].url = calls[i].url
  /\ (Returned \/ InDownload \/ pc \in {"mp3", "mp4", "present"}) =>
       video_info # NoneVal
  /\ (video_info = NoneVal /\ pc = "idle") =>
       /\ ~page.controls
       /\ \A i \in 1..Len(calls) : calls[i].fn \notin DownloadFns

C6_Witness ==
  /\ Len(calls) = 2
  /\ calls[1] = [fn |-> "get_video_info", url |-> UrlShorts, ok |-> TRUE]
  /\ calls[2].fn = "download_video_to_memory"
  /\ Returned

Within(f, h) == f.height.k = "int" /\ f.height.v <= h

Taller(f, h) == f.height.k = "int" /\ f.height.v > h

Mp4(T) == {f \in T : f.ext = "mp4"}

\* The streams the claim has the selector choose among: the first of its
\* tiers that is not empty.
ClaimedTier(quality, streams) ==
  IF quality = BestLabel
  THEN IF Mp4(streams) # {} THEN Mp4(streams) ELSE streams
  ELSE LET within == {f \in streams : Within(f, LabelHeight(quality))}
       IN IF Mp4(within) # {} THEN Mp4(within)
          ELSE IF within # {} THEN within
          ELSE streams

\* C7, as stated: whenever the library offers a stream the selector selects
\* one, a best one of the first tier that is not empty (mp4 within the
\* height, any container within the height, any stream); a stream taller
\* than the height is selected only when no stream is within the height.
C7_AsStated ==
  out # NoCall =>
    LET S == arg.streams
        q == arg.quality
    IN /\ S # {} => out.v # {}
       /\ out.v \subseteq Best(ClaimedTier(q, S))
       /\ q # BestLabel =>
            \A f \in out.v :
              Taller(f, LabelHeight(q)) =>
                ~\E g \in S : Within(g, LabelHeight(q))

\* 1024^i as a byte count.
Power(i) == <<1>> \o [j \in 1..i |-> 0]

\* a < b for byte counts.
Below(a, b) ==
  \/ Len(a) < Len(b)
  \/ /\ Len(a) = Len(b)
     /\ \E n \in 1..Len(a) :
          a[n] < b[n] /\ \A m \in 1..(n - 1) : a[m] = b[m]

\* C8, as stated: format_file_size returns a text for every byte count: '0B'
\* for 0, and otherwise the unit size_names[i] of the i with
\* 1024^i <= b < 1024^(i+1).
C8_AsStated ==
  out # NoCall =>
    LET b == arg.size_bytes
    IN /\ out.kind = "text"
       /\ IF b = <<>> THEN out.unit = "0B"
          ELSE \E i \in 0..3 :
                 /\ out.unit = size_names[i + 1]
                 /\ ~Below(b, Power(i))
                 /\ Below(b, Power(i + 1))

\* C9: the name a download returns is sanitize_filename(title) followed by
\* '.mp3' (audio) or '.mp4' (video), and sanitize_filename(title) holds none
\* of < > : " / \ | ? * and at most 100 characters.
C9_Filename ==
  (Returned /\ dl.path = "returned") =>
    LET clean == sanitize_filename(dl.lib.title.v)
    IN /\ \A i \in 1..Len(clean) :
            clean[i] \notin {"<", ">", ":", "\"", "/", "\\", "|", "?", "*"}
       /\ Len(clean) <= 100
       /\ result.filename.k = "str"
       /\ result.filename.v =
            clean \o (IF dl.fn = "download_audio_to_memory"
                      THEN <<".", "m", "p", "3">> ELSE <<".", "m", "p", "4">>)

C9_Witness ==
  /\ Returned
  /\ dl.path = "returned"
  /\ dl.fn = "download_audio_to_memory"
  /\ Len(dl.lib.title.v) > 100
  /\ \E i \in 1..Len(dl.lib.title.v) : dl.lib.title.v[i] = "?"
  /\ Len(result.filename.v) = 104

\* C10, as stated: when the download call of a clicked button returned
\* bytes and a filename, the page offers exactly them for saving, with the
\* content type of the mode, and shows no failure; it shows the failure only
\* when the call returned (None, None).
C10_AsStated ==
  (Returned /\ pc = "idle") =>
    IF result.file_data # NoneVal /\ result.filename # NoneVal
    THEN /\ page.save # NoneVal
         /\ page.save.data = result.file_data
         /\ page.save.file_name = result.filename
         /\ page.save.mime = (IF mp3_btn THEN "audio/mpeg" ELSE "video/mp4")
         /\ ~page.failed
    ELSE page.failed /\ page.save = NoneVal

====
